---------------------------- MODULE Spec2Model ----------------------------
(***************************************************************************)
(* One rendering pass of the housing dashboard (src/app.py): the sheet is  *)
(* loaded, derived columns are added, the records are grouped by           *)
(* completion year, the year axis is regularised up to TARGET_YEAR,        *)
(* cumulative columns are computed, a degree-1 least-squares trend is      *)
(* fitted per category and the deficit table is assembled.  Output         *)
(* elements are appended to `rendered' in the order the script emits them. *)
(*                                                                         *)
(* Numbers: unit counts and years are integers.  The float arithmetic of   *)
(* numpy is modelled by exact rationals (a whole part and a proper         *)
(* fraction), so rounding error of float64 is not represented.             *)
(***************************************************************************)
EXTENDS Integers, Sequences, FiniteSets, TLC

---------------------------------------------------------------------------
(* Program constants                                                       *)

RENTAL_GOAL == 2700
OWNER_GOAL == 220
TOTAL_GOAL == RENTAL_GOAL + OWNER_GOAL
TARGET_YEAR == 2030

(* Bound of the model: the largest number of rows of the sheet.            *)
MaxRecords == 2

(* src/app.py 20: ttl of st.cache_data, in seconds.                        *)
TTL == 60

(* Bounds of the sequence of passes: the last second of the clock and the  *)
(* number of passes started.                                               *)
MaxClock == 130
MaxPasses == 3

---------------------------------------------------------------------------
(* Cells of a table.  A cell is a number, NaN (an empty field), or a       *)
(* string that does not parse as a number.                                 *)

Num(n) == [k |-> "num", v |-> n, s |-> ""]
NaN == [k |-> "nan", v |-> 0, s |-> ""]
Str(t) == [k |-> "str", v |-> 0, s |-> t]

(* df.fillna(0): every NaN cell of every column becomes the number 0.      *)
FillNa(row) == [c \in DOMAIN row |-> IF row[c].k = "nan" THEN Num(0) ELSE row[c]]

(* pd.to_numeric(..., errors='coerce'): numbers stay, anything else is NaN *)
ToNumeric(cell) == IF cell.k = "num" THEN cell ELSE NaN

---------------------------------------------------------------------------
(* Inputs: the sheets the pass may be given.                               *)

UnitColumns ==
    {"Market Rate Rentals", "Affordable Rentals", "Market Rate Owner", "Affordable Owner"}

SheetColumns == UnitColumns \cup {"Expected finish", "Total units", "Status"}

UnitProfile(mrr, ar, mro, ao, tot, status) ==
    [c \in SheetColumns \ {"Expected finish"} |->
        CASE c = "Market Rate Rentals" -> mrr
          [] c = "Affordable Rentals" -> ar
          [] c = "Market Rate Owner" -> mro
          [] c = "Affordable Owner" -> ao
          [] c = "Total units" -> tot
          [] c = "Status" -> status]

SmallRental == UnitProfile(Num(10), Num(0), Num(0), Num(0), Num(10), Str("Approved"))

AffordableRental == UnitProfile(Num(0), Num(20), NaN, NaN, Num(20), Str("Concept"))

LargeRental == UnitProfile(Num(3000), Num(0), Num(0), Num(0), Num(3000), Str("Approved"))

OwnerMix == UnitProfile(Num(0), Num(0), Num(100), Num(5), Num(105), Str("Concept"))

SheetRow(f, p) == [c \in SheetColumns |-> IF c = "Expected finish" THEN f ELSE p[c]]

(* Rows of the sheet: years before the horizon with each kind of units, a  *)
(* year after the horizon, a finish given as free text, an empty finish.   *)
SheetRows ==
    { SheetRow(Num(2022), SmallRental), SheetRow(Num(2024), AffordableRental),
      SheetRow(Num(2022), LargeRental), SheetRow(Num(2024), LargeRental),
      SheetRow(Num(2022), OwnerMix), SheetRow(Num(2024), OwnerMix),
      SheetRow(Num(2032), AffordableRental),
      SheetRow(Str("TBD"), SmallRental),
      SheetRow(NaN, SmallRental) }

Sheets == UNION { [1..n -> SheetRows] : n \in 0..MaxRecords }

(* Column sets of the sheet: complete, or with one required column gone.   *)
ColumnSets == { SheetColumns, SheetColumns \ {"Market Rate Rentals"} }

(* Years the clock may show when the pass runs.                            *)
ClockYears == {2026, 2030, 2031}

---------------------------------------------------------------------------
(* Sequence helpers                                                        *)

RECURSIVE SumSeq(_)
SumSeq(u) ==
    IF Len(u) = 0 THEN 0
    ELSE IF Len(u) = 1 THEN u[1]
    ELSE LET h == Len(u) \div 2
         IN SumSeq(SubSeq(u, 1, h)) + SumSeq(SubSeq(u, h + 1, Len(u)))

SetMin(S) == CHOOSE x \in S : \A y \in S : x <= y
SetMax(S) == CHOOSE x \in S : \A y \in S : x >= y

RECURSIVE SortedSeq(_)
SortedSeq(S) ==
    IF S = {} THEN <<>> ELSE <<SetMin(S)>> \o SortedSeq(S \ {SetMin(S)})

(* Faulty variants of the running total: the column left as it is, and    *)
(* Series.diff() in place of Series.cumsum().                              *)
CumSumUnitsOnly(u) == u

CumSumDeltas(u) == [i \in 1..Len(u) |-> IF i = 1 THEN u[1] ELSE u[i] - u[i - 1]]

(* Series.cumsum(): running total of a column.                             *)
RECURSIVE CumSum(_)
CumSum(u) ==
    IF Len(u) <= 1 THEN u
    ELSE LET h == Len(u) \div 2
             L == CumSum(SubSeq(u, 1, h))
             R == CumSum(SubSeq(u, h + 1, Len(u)))
         IN L \o [i \in 1..Len(R) |-> R[i] + L[h]]

---------------------------------------------------------------------------
(* Normalisation (src/app.py 48-61)                                        *)

DerivedColumns ==
    {"Rental Units", "Owner Units", "Affordable Units", "Market Rate Units", "Move-in Year"}

RequiredForDerive == UnitColumns \cup {"Total units", "Expected finish"}

DeriveRow(row) ==
    [c \in (DOMAIN row) \cup DerivedColumns |->
        CASE c = "Rental Units" ->
                Num(row["Market Rate Rentals"].v + row["Affordable Rentals"].v)
          [] c = "Owner Units" ->
                Num(row["Market Rate Owner"].v + row["Affordable Owner"].v)
          [] c = "Affordable Units" ->
                Num(row["Affordable Rentals"].v + row["Affordable Owner"].v)
          [] c = "Market Rate Units" ->
                Num(row["Market Rate Rentals"].v + row["Market Rate Owner"].v)
          [] c = "Move-in Year" -> ToNumeric(row["Expected finish"])
          [] OTHER -> row[c]]

HasYear(row) == row["Move-in Year"].k # "nan"

---------------------------------------------------------------------------
(* Aggregation (src/app.py 63-84)                                          *)

AggColumns ==
    {"Rental Units", "Owner Units", "Total units", "Affordable Units", "Market Rate Units"}

CumulativeOf ==
    [c \in AggColumns |->
        CASE c = "Rental Units" -> "Cumulative Rental"
          [] c = "Owner Units" -> "Cumulative Owner"
          [] c = "Total units" -> "Cumulative Total"
          [] c = "Affordable Units" -> "Cumulative Affordable"
          [] c = "Market Rate Units" -> "Cumulative Market Rate"]

CumColumns == { CumulativeOf[c] : c \in AggColumns }

(* Sum of column c over the rows of a table whose year is y.               *)
RECURSIVE SumForYear(_, _, _)
SumForYear(rows, c, y) ==
    IF rows = <<>> THEN 0
    ELSE (IF Head(rows)["Move-in Year"].v = y THEN Head(rows)[c].v ELSE 0)
         + SumForYear(Tail(rows), c, y)

EmptyFrame(cols) == [c \in cols |-> <<>>]

(* df_valid.groupby("Move-in Year").agg(sum).reset_index(): one row per    *)
(* distinct year, ordered by year.                                         *)
GroupByYear(rows) ==
    LET years == SortedSeq({ rows[i]["Move-in Year"].v : i \in DOMAIN rows })
    IN [c \in AggColumns \cup {"Move-in Year"} |->
            IF c = "Move-in Year" THEN years
            ELSE [i \in 1..Len(years) |->
                    SumForYear(rows, c, years[i])]]

(* list(range(int(min year), TARGET_YEAR + 1))                             *)
YearRange(lo, hi) == [i \in 1..(IF hi >= lo THEN hi - lo + 1 ELSE 0) |-> lo + i - 1]

(* complete_years.merge(yearly_data, how="left").fillna(0)                 *)
(* Left join on the year key: a row of `years' takes the value of the row  *)
(* of yd with the same year, and the fill value when yd has no such row.   *)
RECURSIVE Matched(_, _, _, _, _)
Matched(yd, c, y, fill, j) ==
    IF j = 0 THEN fill
    ELSE IF yd["Move-in Year"][j] = y THEN yd[c][j]
    ELSE Matched(yd, c, y, fill, j - 1)

(* Faulty variant of the merge: an outer join, which keeps the rows of yd   *)
(* whose year is not on the axis (the years after its end) behind the      *)
(* rows of the axis.                                                       *)
MergeFillOuter(years, yd, c) ==
    LET n == Len(yd["Move-in Year"])
        off == { j \in 1..n :
                    \A i \in 1..Len(years) : years[i] # yd["Move-in Year"][j] }
    IN [i \in 1..(Len(years) + Cardinality(off)) |->
            IF i <= Len(years)
            THEN Matched(yd, c, years[i], 0, n)
            ELSE yd[c][n - Cardinality(off) + (i - Len(years))]]

MergeFill(years, yd, c) ==
    [i \in 1..Len(years) |-> Matched(yd, c, years[i], 0, Len(yd["Move-in Year"]))]

YearlyComplete(years, yd) ==
    LET merged == [col \in AggColumns |-> MergeFill(years, yd, col)]
    IN [col \in AggColumns \cup CumColumns \cup {"Move-in Year"} |->
            IF col = "Move-in Year" THEN years
            ELSE IF col \in AggColumns THEN merged[col]
            ELSE CumSum(merged[CHOOSE a \in AggColumns : CumulativeOf[a] = col])]

---------------------------------------------------------------------------
(* Exact rationals: [w, f, d] is the number w + f/d with 0 <= f < d.       *)

Rat(n) == [w |-> n, f |-> 0, d |-> 1]

Abs(n) == IF n < 0 THEN -n ELSE n
Sgn(n) == IF n < 0 THEN -1 ELSE IF n > 0 THEN 1 ELSE 0

(* <<q, r>> with a * b = q * c + r and 0 <= r < c, for 0 <= a < c, b >= 0, *)
(* computed by doubling so that no intermediate product is formed.         *)
RECURSIVE MulDivMod(_, _, _)
MulDivMod(a, b, c) ==
    IF b = 0 THEN <<0, 0>>
    ELSE LET h == MulDivMod(a, b \div 2, c)
             t == 2 * h[2] + (IF b % 2 = 1 THEN a ELSE 0)
         IN <<2 * h[1] + (t \div c), t % c>>

(* w + f/d for any integer f, brought back to 0 <= f < d.                  *)
Normalize(w, f, d) == [w |-> w + (f \div d), f |-> f % d, d |-> d]

RatNeg(p) == IF p.f = 0 THEN [w |-> -p.w, f |-> 0, d |-> p.d]
             ELSE [w |-> -p.w - 1, f |-> p.d - p.f, d |-> p.d]

RatAdd(p, q) ==
    IF p.d = q.d THEN Normalize(p.w + q.w, p.f + q.f, p.d)
    ELSE Normalize(p.w + q.w, p.f * q.d + q.f * p.d, p.d * q.d)

RatSub(p, q) == RatAdd(p, RatNeg(q))

RatPositive(p) == p.w > 0 \/ (p.w = 0 /\ p.f > 0)
RatNonNegative(p) == p.w >= 0

(* Faulty variant of the clamp: the difference passed through unclamped.   *)
Max0Unclamped(p) == p

(* max(0, x)                                                               *)
Max0(p) == IF RatNonNegative(p) THEN p ELSE [w |-> 0, f |-> 0, d |-> p.d]

(* int(x): truncation toward zero.                                         *)
ToInt(p) == IF p.w >= 0 \/ p.f = 0 THEN p.w ELSE p.w + 1

(* a / b for integers a and b > 0.                                         *)
RatDiv(a, b) == Normalize(0, a, b)

---------------------------------------------------------------------------
(* Trend fit (src/app.py 156-171, 234-249)                                 *)

RECURSIVE Dot(_, _)
Dot(u, v) == IF u = <<>> THEN 0 ELSE Head(u) * Head(v) + Dot(Tail(u), Tail(v))

(* np.poly1d(np.polyfit(xs, ys, 1))(at): the least-squares line through    *)
(* the points (xs[i], ys[i]), evaluated at `at'.  With t = x - at the      *)
(* value is Sy/n - (n*Sty - St*Sy) * St / (n * (n*Stt - St*St)).           *)
PolyFitEval(xs, ys, at) ==
    LET n == Len(xs)
        ts == [i \in 1..n |-> xs[i] - at]
        St == SumSeq(ts)
        Sy == SumSeq(ys)
        Stt == Dot(ts, ts)
        Sty == Dot(ts, ys)
        D == n * Stt - St * St
        SN == n * Sty - St * Sy
        den == n * D
        sign == Sgn(SN) * Sgn(St)
        whole == Abs(SN) \div den
        part == MulDivMod(Abs(SN) % den, Abs(St), den)
        mean == Normalize(Sy \div n, (Sy % n) * D, den)
        tilt == Normalize(whole * Abs(St) + part[1], part[2], den)
    IN IF sign >= 0 THEN RatSub(mean, tilt) ELSE RatAdd(mean, tilt)

---------------------------------------------------------------------------
(* Trend inputs and the deficit table                                      *)

(* Faulty variant of the trend inputs: the units of each year instead of  *)
(* their running total.                                                    *)
TrendInputsPerYearUnits(yd, c) == [years |-> yd["Move-in Year"], cum |-> yd[c]]

(* src/app.py 157-158, 235-236: the fit is given the years of yearly_data  *)
(* and the running total of the column over those rows.                    *)
TrendInputs(yd, c) == [years |-> yd["Move-in Year"], cum |-> CumSum(yd[c])]

(* src/app.py 156, 234: `if len(yearly_data) >= 2' before each fit.         *)
HasTrend(yd) == Len(yd["Move-in Year"]) >= 2

(* src/app.py 288: `if len(yearly_data) >= 2' before the projected columns  *)
(* of the deficit table.                                                   *)
TableHasProjection(yd) == Len(yd["Move-in Year"]) >= 2

(* Faulty variant of the horizon test: a threshold of five years, which    *)
(* withholds the rates while the target is still ahead.                    *)
HorizonOverFiveYears(years) == years > 5

(* src/app.py 305: `if years_remaining > 0' before the per-year rates.      *)
HorizonAhead(years) == years > 0

(* src/app.py 281-298: the columns of the deficit table.                   *)
DeficitBase(cr, co, rd, od, td) ==
    [col \in {"Housing Type", "2030 Goal", "Current Planned", "Current Deficit"} |->
        CASE col = "Housing Type" -> <<"Rental Units", "Owner Units", "Total">>
          [] col = "2030 Goal" -> <<RENTAL_GOAL, OWNER_GOAL, TOTAL_GOAL>>
          [] col = "Current Planned" -> <<cr, co, cr + co>>
          [] col = "Current Deficit" -> <<rd, od, td>>]

DeficitProjected(rp, op, prd, pod, ptd) ==
    [col \in {"Projected for 2030", "Projected Deficit"} |->
        IF col = "Projected for 2030"
        THEN <<ToInt(rp), ToInt(op), ToInt(RatAdd(rp, op))>>
        ELSE <<ToInt(prd), ToInt(pod), ToInt(ptd)>>]

(* df.groupby("Status").agg(sum) over every row of df.                     *)
RECURSIVE SumForStatus(_, _, _)
SumForStatus(rows, c, st) ==
    IF rows = <<>> THEN 0
    ELSE (IF Head(rows)["Status"] = st THEN Head(rows)[c].v ELSE 0)
         + SumForStatus(Tail(rows), c, st)

GroupByStatus(rows) ==
    [st \in { rows[i]["Status"] : i \in DOMAIN rows } |->
        [c \in {"Market Rate Units", "Affordable Units"} |-> SumForStatus(rows, c, st)]]

(* iloc[-1] of a column, guarded by `if not yearly_complete.empty else 0'. *)
LastOrZero(col) == IF Len(col) = 0 THEN 0 ELSE col[Len(col)]

---------------------------------------------------------------------------
(* State                                                                   *)

VARIABLES
    sheet,            \* rows of the external CSV
    columns,          \* column names of the table
    now_year,         \* datetime.now().year
    pc,               \* position of the script
    error,            \* exception that ended the pass, or "none"
    rendered,         \* output elements emitted so far, in order
    locals,           \* names bound so far, as far as the script tests them
    df, CURRENT_YEAR, df_valid, yearly_data, all_years,
    current_rental, current_owner, current_affordable, current_market_rate,
    rental_deficit, owner_deficit, total_deficit,
    rental_years, rental_cum, rental_poly1d, rental_annotation,
    owner_years, owner_cum, owner_poly1d, owner_annotation,
    rental_projected, owner_projected,
    projected_rental_deficit, projected_owner_deficit, projected_total_deficit,
    deficit_data, years_remaining, per_year_info, affordability_by_status

inputVars == <<sheet, columns, now_year>>
frameVars == <<df, df_valid, yearly_data, all_years>>
metricVars == <<current_rental, current_owner, current_affordable, current_market_rate,
                rental_deficit, owner_deficit, total_deficit>>
rentalVars == <<rental_years, rental_cum, rental_poly1d, rental_annotation>>
ownerVars == <<owner_years, owner_cum, owner_poly1d, owner_annotation>>
projVars == <<projected_rental_deficit, projected_owner_deficit, projected_total_deficit>>
tableVars == <<rental_projected, owner_projected, deficit_data>>
tailVars == <<years_remaining, per_year_info, affordability_by_status>>

passVars == <<inputVars, pc, error, rendered, locals, CURRENT_YEAR, frameVars, metricVars,
              rentalVars, ownerVars, projVars, tableVars, tailVars>>

(* State of the server across passes (src/app.py 19-34): the clock, what   *)
(* the name load_data is bound to in the running script, the entry of the  *)
(* st.cache_data store, and the fetches made.                              *)
VARIABLES
    run_pc,           \* position of the script in the sequence of passes
    clock,            \* seconds since the server started
    load_data,        \* "unbound", "cached" (lines 19-26) or "plain" (lines 30-32)
    cache_entry,      \* <<>> or <<t>>: the table stored at second t
    last_fetch,       \* <<>> or <<t>>: the latest successful fetch
    prev_fetch,       \* last_fetch as it was when the running pass started
    pass_start,       \* second at which the running pass started
    pass_fetched,     \* whether the running pass has called pd.read_csv
    passes            \* passes started so far

cacheVars == <<run_pc, clock, load_data, cache_entry, last_fetch, prev_fetch,
               pass_start, pass_fetched, passes>>

(* src/geocode_addresses.py: one run of batch_geocode.                      *)
VARIABLES
    geo_pc,           \* position in batch_geocode
    input_csv,        \* the address column of the table read from input_csv
    geo_df,           \* df of batch_geocode: address, Latitude and Longitude per row
    visited,          \* the idx labels df.iterrows() has yielded so far
    geocode_calls,    \* per row, the outcomes of the calls of geocode(addr)
    to_csv_calls,     \* number of calls of df.to_csv
    output_csv        \* <<>> or <<table>>: the table written to output_csv

geoVars == <<geo_pc, input_csv, geo_df, visited, geocode_calls, to_csv_calls, output_csv>>

vars == <<passVars, cacheVars, geoVars>>

(* src/app.py 74-84: the regularised frame with its cumulative columns.  It *)
(* is built once from all_years and yearly_data and never written again,   *)
(* so it is kept as a function of the two.                                 *)
yearly_complete == YearlyComplete(all_years, yearly_data)

(* The server before any pass.                                             *)
CacheIdle ==
    /\ run_pc = "idle"
    /\ clock = 0
    /\ load_data = "unbound"
    /\ cache_entry = <<>>
    /\ last_fetch = <<>>
    /\ prev_fetch = <<>>
    /\ pass_start = 0
    /\ pass_fetched = FALSE
    /\ passes = 0

(* batch_geocode not running.                                              *)
GeoIdle ==
    /\ geo_pc = "off"
    /\ input_csv = <<>>
    /\ geo_df = <<>>
    /\ visited = <<>>
    /\ geocode_calls = <<>>
    /\ to_csv_calls = 0
    /\ output_csv = <<>>

(* The variables of a pass before its first statement.                     *)
PassStart ==
    /\ pc = "load"
    /\ error = "none"
    /\ rendered = <<>>
    /\ locals = {}
    /\ df = <<>>
    /\ CURRENT_YEAR = 0
    /\ df_valid = <<>>
    /\ yearly_data = EmptyFrame(AggColumns \cup {"Move-in Year"})
    /\ all_years = <<>>
    /\ current_rental = 0 /\ current_owner = 0
    /\ current_affordable = 0 /\ current_market_rate = 0
    /\ rental_deficit = 0 /\ owner_deficit = 0 /\ total_deficit = 0
    /\ rental_years = <<>> /\ rental_cum = <<>>
    /\ rental_poly1d = Rat(0) /\ rental_annotation = <<>>
    /\ owner_years = <<>> /\ owner_cum = <<>>
    /\ owner_poly1d = Rat(0) /\ owner_annotation = <<>>
    /\ rental_projected = Rat(0) /\ owner_projected = Rat(0)
    /\ projected_rental_deficit = Rat(0)
    /\ projected_owner_deficit = Rat(0)
    /\ projected_total_deficit = Rat(0)
    /\ deficit_data = <<>>
    /\ years_remaining = 0
    /\ per_year_info = <<>>
    /\ affordability_by_status = <<>>

Init ==
    /\ sheet \in Sheets
    /\ columns \in ColumnSets
    /\ now_year \in ClockYears
    /\ PassStart
    /\ CacheIdle
    /\ GeoIdle

(* src/app.py 34-35: df = load_data(CSV_URL); df.fillna(0, inplace=True)   *)
LoadData ==
    /\ pc = "load"
    /\ df' = [i \in 1..Len(sheet) |-> FillNa([c \in columns |-> sheet[i][c]])]
    /\ pc' = "header"
    /\ UNCHANGED <<cacheVars, geoVars, inputVars, error, rendered, locals, CURRENT_YEAR,
                   df_valid, yearly_data, all_years,
                   metricVars, rentalVars, ownerVars, projVars, tableVars, tailVars>>

(* src/app.py 37-46: goals, CURRENT_YEAR, page title                       *)
Header ==
    /\ pc = "header"
    /\ CURRENT_YEAR' = now_year
    /\ rendered' = rendered \o <<"title", "subheader", "caption">>
    /\ pc' = "derive"
    /\ UNCHANGED <<cacheVars, geoVars, inputVars, error, locals, frameVars,
                   metricVars, rentalVars, ownerVars, projVars, tableVars, tailVars>>

(* src/app.py 48-61: derived columns; a missing column raises KeyError     *)
DeriveColumns ==
    /\ pc = "derive"
    /\ IF RequiredForDerive \subseteq columns
       THEN /\ df' = [i \in 1..Len(df) |-> DeriveRow(df[i])]
            /\ columns' = columns \cup DerivedColumns
            /\ df_valid' = SelectSeq(df', HasYear)
            /\ pc' = "aggregate"
            /\ error' = error
       ELSE /\ pc' = "aborted"
            /\ error' = "KeyError"
            /\ UNCHANGED <<df, columns, df_valid>>
    /\ UNCHANGED <<cacheVars, geoVars, sheet, now_year, rendered, locals, CURRENT_YEAR,
                   yearly_data, all_years,
                   metricVars, rentalVars, ownerVars, projVars, tableVars, tailVars>>

(* src/app.py 63-74: group by year and regularise the axis.  int(min()) of *)
(* an empty column is int(NaN): ValueError.                                *)
Aggregate ==
    /\ pc = "aggregate"
    /\ yearly_data' = GroupByYear(df_valid)
    /\ IF Len(yearly_data'["Move-in Year"]) = 0
       THEN /\ pc' = "aborted"
            /\ error' = "ValueError"
            /\ UNCHANGED all_years
       ELSE /\ all_years' = YearRange(yearly_data'["Move-in Year"][1], TARGET_YEAR)
            /\ pc' = "metrics"
            /\ error' = error
    /\ UNCHANGED <<cacheVars, geoVars, inputVars, rendered, locals, CURRENT_YEAR, df, df_valid,
                   metricVars, rentalVars, ownerVars, projVars, tableVars, tailVars>>

(* src/app.py 86-114: current totals, deficits, the four metrics           *)
Metrics ==
    /\ pc = "metrics"
    /\ LET frame == yearly_complete
       IN /\ current_rental' = LastOrZero(frame["Cumulative Rental"])
          /\ current_owner' = LastOrZero(frame["Cumulative Owner"])
          /\ current_affordable' = LastOrZero(frame["Cumulative Affordable"])
          /\ current_market_rate' = LastOrZero(frame["Cumulative Market Rate"])
    /\ rental_deficit' = RENTAL_GOAL - current_rental'
    /\ owner_deficit' = OWNER_GOAL - current_owner'
    /\ total_deficit' = TOTAL_GOAL - (current_rental' + current_owner')
    /\ rendered' = rendered \o <<"metric rental progress", "metric rental deficit",
                                  "metric owner progress", "metric affordable">>
    /\ pc' = "rental_chart"
    /\ UNCHANGED <<cacheVars, geoVars, inputVars, error, locals, CURRENT_YEAR, frameVars,
                   rentalVars, ownerVars, projVars, tableVars, tailVars>>

(* src/app.py 122-197: rental chart with its trendline and annotation.     *)
(* rental_poly1d is kept as its value at TARGET_YEAR.                      *)
RentalChart ==
    /\ pc = "rental_chart"
    /\ IF HasTrend(yearly_data)
       THEN LET fit == TrendInputs(yearly_data, "Rental Units")
                by_2030 == PolyFitEval(fit.years, fit.cum, TARGET_YEAR)
                deficit == Max0(RatSub(Rat(RENTAL_GOAL), by_2030))
                last == yearly_data["Move-in Year"][Len(yearly_data["Move-in Year"])]
            IN /\ rental_years' = fit.years
               /\ rental_cum' = fit.cum
               /\ rental_poly1d' = by_2030
               /\ IF last + 1 < TARGET_YEAR + 1
                  THEN /\ projected_rental_deficit' = deficit
                       /\ locals' = locals \cup {"rental_poly1d", "projected_rental_deficit"}
                       /\ rental_annotation' =
                              IF RatPositive(deficit) THEN <<ToInt(deficit)>> ELSE <<>>
                  ELSE /\ locals' = locals \cup {"rental_poly1d"}
                       /\ UNCHANGED <<projected_rental_deficit, rental_annotation>>
       ELSE UNCHANGED <<rentalVars, projected_rental_deficit, locals>>
    /\ rendered' = rendered \o <<"rental subheader", "rental chart">>
    /\ pc' = "owner_chart"
    /\ UNCHANGED <<cacheVars, geoVars, inputVars, error, CURRENT_YEAR, frameVars, metricVars, ownerVars,
                   projected_owner_deficit, projected_total_deficit, tableVars, tailVars>>

(* src/app.py 199-275: owner chart with its trendline and annotation       *)
OwnerChart ==
    /\ pc = "owner_chart"
    /\ IF HasTrend(yearly_data)
       THEN LET fit == TrendInputs(yearly_data, "Owner Units")
                by_2030 == PolyFitEval(fit.years, fit.cum, TARGET_YEAR)
                deficit == Max0(RatSub(Rat(OWNER_GOAL), by_2030))
                last == yearly_data["Move-in Year"][Len(yearly_data["Move-in Year"])]
            IN /\ owner_years' = fit.years
               /\ owner_cum' = fit.cum
               /\ owner_poly1d' = by_2030
               /\ IF last + 1 < TARGET_YEAR + 1
                  THEN /\ projected_owner_deficit' = deficit
                       /\ locals' = locals \cup {"owner_poly1d", "projected_owner_deficit"}
                       /\ owner_annotation' =
                              IF RatPositive(deficit) THEN <<ToInt(deficit)>> ELSE <<>>
                  ELSE /\ locals' = locals \cup {"owner_poly1d"}
                       /\ UNCHANGED <<projected_owner_deficit, owner_annotation>>
       ELSE UNCHANGED <<ownerVars, projected_owner_deficit, locals>>
    /\ rendered' = rendered \o <<"owner subheader", "owner chart">>
    /\ pc' = "deficit_table"
    /\ UNCHANGED <<cacheVars, geoVars, inputVars, error, CURRENT_YEAR, frameVars, metricVars, rentalVars,
                   projected_rental_deficit, projected_total_deficit, tableVars, tailVars>>

(* src/app.py 277-301: the deficit table                                   *)
DeficitTable ==
    /\ pc = "deficit_table"
    /\ LET base == DeficitBase(current_rental, current_owner,
                               rental_deficit, owner_deficit, total_deficit)
       IN IF TableHasProjection(yearly_data)
          THEN /\ rental_projected' =
                     IF "rental_poly1d" \in locals THEN rental_poly1d ELSE Rat(current_rental)
               /\ owner_projected' =
                     IF "owner_poly1d" \in locals THEN owner_poly1d ELSE Rat(current_owner)
               /\ projected_rental_deficit' =
                     Max0(RatSub(Rat(RENTAL_GOAL), rental_projected'))
               /\ projected_owner_deficit' =
                     Max0(RatSub(Rat(OWNER_GOAL), owner_projected'))
               /\ projected_total_deficit' =
                     RatAdd(projected_rental_deficit', projected_owner_deficit')
               /\ locals' = locals \cup {"rental_projected", "owner_projected",
                                          "projected_rental_deficit",
                                          "projected_owner_deficit",
                                          "projected_total_deficit"}
               /\ deficit_data' = base @@ DeficitProjected(rental_projected', owner_projected',
                                                           projected_rental_deficit',
                                                           projected_owner_deficit',
                                                           projected_total_deficit')
          ELSE /\ deficit_data' = base
               /\ UNCHANGED <<rental_projected, owner_projected, projVars, locals>>
    /\ rendered' = rendered \o <<"deficit subheader", "deficit table">>
    /\ pc' = "per_year"
    /\ UNCHANGED <<cacheVars, geoVars, inputVars, error, CURRENT_YEAR, frameVars, metricVars,
                   rentalVars, ownerVars, tailVars>>

(* src/app.py 303-312: units needed per remaining year                     *)
PerYear ==
    /\ pc = "per_year"
    /\ years_remaining' = TARGET_YEAR - CURRENT_YEAR
    /\ IF HorizonAhead(years_remaining')
       THEN /\ per_year_info' = <<ToInt(RatDiv(rental_deficit, years_remaining')),
                                  ToInt(RatDiv(owner_deficit, years_remaining')),
                                  years_remaining'>>
            /\ rendered' = rendered \o <<"per-year info">>
       ELSE UNCHANGED <<per_year_info, rendered>>
    /\ pc' = "locations"
    /\ UNCHANGED <<cacheVars, geoVars, inputVars, error, locals, CURRENT_YEAR, frameVars, metricVars,
                   rentalVars, ownerVars, projVars, tableVars, affordability_by_status>>

(* src/app.py 317-435: the map of the developments and its legend          *)
Locations ==
    /\ pc = "locations"
    /\ rendered' = rendered \o <<"locations header", "map", "legend">>
    /\ pc' = "affordability"
    /\ UNCHANGED <<cacheVars, geoVars, inputVars, error, locals, CURRENT_YEAR, frameVars, metricVars,
                   rentalVars, ownerVars, projVars, tableVars, tailVars>>

(* src/app.py 438-519: affordability pie, per-status bars, project table;  *)
(* grouping by a column the table does not have raises KeyError.           *)
Affordability ==
    /\ pc = "affordability"
    /\ IF "Status" \in columns
       THEN /\ affordability_by_status' = GroupByStatus(df)
            /\ rendered' = rendered \o <<"affordability header", "affordability pie",
                                          "affordability by status",
                                          "projects subheader", "projects table">>
            /\ pc' = "market_trends"
            /\ error' = error
       ELSE /\ rendered' = rendered \o <<"affordability header", "affordability pie">>
            /\ pc' = "aborted"
            /\ error' = "KeyError"
            /\ UNCHANGED affordability_by_status
    /\ UNCHANGED <<cacheVars, geoVars, inputVars, locals, CURRENT_YEAR, frameVars, metricVars,
                   rentalVars, ownerVars, projVars, tableVars, years_remaining, per_year_info>>

(* src/app.py 521-628: the static market-trend charts; the pass ends       *)
MarketTrends ==
    /\ pc = "market_trends"
    /\ rendered' = rendered \o <<"trends header", "home price chart", "home price notes",
                                  "rent chart", "rent notes", "disclaimer">>
    /\ pc' = "done"
    /\ UNCHANGED <<cacheVars, geoVars, inputVars, error, locals, CURRENT_YEAR, frameVars, metricVars,
                   rentalVars, ownerVars, projVars, tableVars, tailVars>>

Next ==
    \/ LoadData
    \/ Header
    \/ DeriveColumns
    \/ Aggregate
    \/ Metrics
    \/ RentalChart
    \/ OwnerChart
    \/ DeficitTable
    \/ PerYear
    \/ Locations
    \/ Affordability
    \/ MarketTrends

Spec == Init /\ [][Next]_vars

---------------------------------------------------------------------------
(* The sequence of passes and the data fetch (src/app.py 19-34).  Every    *)
(* pass runs the script from its first line: the name load_data is bound   *)
(* to the function decorated with st.cache_data (lines 19-26), then bound  *)
(* again to an undecorated function (lines 30-32), then called (line 34).  *)

(* Seconds that may pass between two passes.                               *)
TickSeconds == {20, 45}

(* st.cache_data(ttl=...): a stored entry is served while it is younger    *)
(* than the ttl.                                                           *)
CacheHit(entry, now) == entry # <<>> /\ now - entry[1] < TTL

Tick ==
    /\ run_pc = "idle"
    /\ \E d \in TickSeconds :
          /\ clock + d <= MaxClock
          /\ clock' = clock + d
    /\ UNCHANGED <<passVars, geoVars, run_pc, load_data, cache_entry, last_fetch, prev_fetch,
                   pass_start, pass_fetched, passes>>

(* A rerun of the script starts: its globals are fresh.                    *)
StartPass ==
    /\ run_pc = "idle"
    /\ passes < MaxPasses
    /\ passes' = passes + 1
    /\ pass_start' = clock
    /\ prev_fetch' = last_fetch
    /\ pass_fetched' = FALSE
    /\ load_data' = "unbound"
    /\ run_pc' = "decorate"
    /\ UNCHANGED <<passVars, geoVars, clock, cache_entry, last_fetch>>

(* src/app.py 19-26: @st.cache_data(ttl=60, ...) def load_data(path)       *)
DefineCached ==
    /\ run_pc = "decorate"
    /\ load_data' = "cached"
    /\ run_pc' = "redefine"
    /\ UNCHANGED <<passVars, geoVars, clock, cache_entry, last_fetch, prev_fetch,
                   pass_start, pass_fetched, passes>>

(* src/app.py 30-32: def load_data(url), without a decorator               *)
DefinePlain ==
    /\ run_pc = "redefine"
    /\ load_data' = "plain"
    /\ run_pc' = "call"
    /\ UNCHANGED <<passVars, geoVars, clock, cache_entry, last_fetch, prev_fetch,
                   pass_start, pass_fetched, passes>>

(* src/app.py 34: df = load_data(CSV_URL).  The function the name is bound *)
(* to runs: the cached one serves a live entry and fetches otherwise, the  *)
(* plain one calls pd.read_csv; a fetch that fails ends the pass.          *)
CallLoadData ==
    /\ run_pc = "call"
    /\ IF load_data = "cached" /\ CacheHit(cache_entry, clock)
       THEN /\ run_pc' = "loaded"
            /\ UNCHANGED <<cache_entry, last_fetch, pass_fetched>>
       ELSE /\ pass_fetched' = TRUE
            /\ \E ok \in BOOLEAN :
                  IF ok
                  THEN /\ last_fetch' = <<clock>>
                       /\ cache_entry' = IF load_data = "cached" THEN <<clock>>
                                         ELSE cache_entry
                       /\ run_pc' = "loaded"
                  ELSE /\ run_pc' = "idle"
                       /\ UNCHANGED <<cache_entry, last_fetch>>
    /\ UNCHANGED <<passVars, geoVars, clock, load_data, prev_fetch, pass_start, passes>>

(* src/app.py 35-628: the rest of the pass                                 *)
RestOfPass ==
    /\ run_pc = "loaded"
    /\ run_pc' = "idle"
    /\ UNCHANGED <<passVars, geoVars, clock, load_data, cache_entry, last_fetch, prev_fetch,
                   pass_start, pass_fetched, passes>>

(* The variables of a single pass while the sequence of passes is studied. *)
PassIdle ==
    /\ sheet = <<>>
    /\ columns = SheetColumns
    /\ now_year = 2026
    /\ PassStart

CacheInit == PassIdle /\ CacheIdle /\ GeoIdle

CacheNext ==
    \/ Tick
    \/ StartPass
    \/ DefineCached
    \/ DefinePlain
    \/ CallLoadData
    \/ RestOfPass

CacheSpec == CacheInit /\ [][CacheNext]_vars

---------------------------------------------------------------------------
(* src/geocode_addresses.py 8-49: batch_geocode.  geocode(addr) is the     *)
(* rate-limited call of the geocoding service: it returns a location,      *)
(* returns None, or raises.                                                *)

MaxRows == 2

None == [k |-> "none", v |-> 0, s |-> ""]

Addresses == {Str("1 Junkins Ave"), Str("2 Elm St")}

(* The address column of the input table (an empty field is read as NaN),  *)
(* for tables that have the column.                                        *)
InputCsvs == UNION { [1..n -> Addresses \cup {NaN}] : n \in 0..MaxRows }

Located(lat, lon) == [kind |-> "location", latitude |-> lat, longitude |-> lon]
NoMatch == [kind |-> "none", latitude |-> 0, longitude |-> 0]
Raised == [kind |-> "raise", latitude |-> 0, longitude |-> 0]

GeocodeOutcomes == {Located(43, -70), NoMatch, Raised}

(* Faulty variant of the missing-address test: no address is missing.      *)
IsNaNever(cell) == FALSE

(* src/geocode_addresses.py 24: pd.isna(addr)                               *)
IsNa(cell) == cell.k = "nan"

(* src/geocode_addresses.py 10, 19-20: the table with its placeholder       *)
(* columns.                                                                *)
Placeholder(addrs) ==
    [i \in 1..Len(addrs) |->
        [c \in {"Property address", "Latitude", "Longitude"} |->
            IF c = "Property address" THEN addrs[i] ELSE None]]

(* src/geocode_addresses.py 30-31, 39-40: df.at[idx, ...] = location....    *)
SetLocation(table, i, location) ==
    [table EXCEPT ![i] = [c \in DOMAIN table[i] |->
        CASE c = "Latitude" -> Num(location.latitude)
          [] c = "Longitude" -> Num(location.longitude)
          [] OTHER -> table[i][c]]]

(* src/geocode_addresses.py 22-25: the iterator yields the next row, and a  *)
(* row without an address is passed over; after the last row the loop is   *)
(* left.                                                                   *)
IterRows ==
    /\ geo_pc = "for"
    /\ IF Len(visited) < Len(geo_df)
       THEN LET idx == Len(visited)
                addr == geo_df[idx + 1]["Property address"]
            IN /\ visited' = Append(visited, idx)
               /\ geo_pc' = IF IsNa(addr) THEN "for" ELSE "try"
       ELSE /\ geo_pc' = "to_csv"
            /\ UNCHANGED visited
    /\ UNCHANGED <<passVars, cacheVars, input_csv, geo_df, geocode_calls,
                   to_csv_calls, output_csv>>

(* src/geocode_addresses.py 27-31, 44-45: the first call for the row.       *)
FirstAttempt ==
    /\ geo_pc = "try"
    /\ \E location \in GeocodeOutcomes :
          LET i == Len(visited)
          IN /\ geocode_calls' = [geocode_calls EXCEPT ![i] = Append(@, location)]
             /\ geo_df' = IF location.kind = "location"
                           THEN SetLocation(geo_df, i, location)
                           ELSE geo_df
             /\ geo_pc' = IF location.kind = "raise" THEN "except" ELSE "for"
    /\ UNCHANGED <<passVars, cacheVars, input_csv, visited, to_csv_calls, output_csv>>

(* src/geocode_addresses.py 32-45: the handler of the first call's          *)
(* exception: a message, a pause, and one more call whose exception is     *)
(* printed and dropped.                                                    *)
Retry ==
    /\ geo_pc = "except"
    /\ \E location \in GeocodeOutcomes :
          LET i == Len(visited)
          IN /\ geocode_calls' = [geocode_calls EXCEPT ![i] = Append(@, location)]
             /\ geo_df' = IF location.kind = "location"
                           THEN SetLocation(geo_df, i, location)
                           ELSE geo_df
    /\ geo_pc' = "for"
    /\ UNCHANGED <<passVars, cacheVars, input_csv, visited, to_csv_calls, output_csv>>

(* src/geocode_addresses.py 48-49: df.to_csv(output_csv, index=False)       *)
ToCsv ==
    /\ geo_pc = "to_csv"
    /\ to_csv_calls' = to_csv_calls + 1
    /\ output_csv' = <<geo_df>>
    /\ geo_pc' = "return"
    /\ UNCHANGED <<passVars, cacheVars, input_csv, geo_df, visited, geocode_calls>>

GeoInit ==
    /\ PassIdle
    /\ CacheIdle
    /\ input_csv \in InputCsvs
    /\ geo_df = Placeholder(input_csv)
    /\ geo_pc = "for"
    /\ visited = <<>>
    /\ geocode_calls = [i \in 1..Len(input_csv) |-> <<>>]
    /\ to_csv_calls = 0
    /\ output_csv = <<>>

GeoNext ==
    \/ IterRows
    \/ FirstAttempt
    \/ Retry
    \/ ToCsv

GeoSpec == GeoInit /\ [][GeoNext]_vars

---------------------------------------------------------------------------
(* Vocabulary of the properties                                            *)

(* The completion years the records of the sheet carry: a record whose     *)
(* "Expected finish" field is empty or is not a number carries none.       *)
ParseableYears ==
    { sheet[i]["Expected finish"].v :
        i \in { j \in DOMAIN sheet : sheet[j]["Expected finish"].k = "num" } }

(* The rows of the loaded table that hold a number in "Move-in Year", and  *)
(* the distinct values they hold (defined once the column exists).         *)
DatedRows == { i \in DOMAIN df : df[i]["Move-in Year"].k = "num" }
DatedYears == { df[i]["Move-in Year"].v : i \in DatedRows }

RECURSIVE SumOverRows(_, _)
SumOverRows(S, c) ==
    IF S = {} THEN 0
    ELSE LET i == CHOOSE j \in S : TRUE
         IN df[i][c].v + SumOverRows(S \ {i}, c)

UnitsUpTo(c, y) == SumOverRows({ i \in DatedRows : df[i]["Move-in Year"].v <= y }, c)

Points(xs, ys) == { <<xs[i], ys[i]>> : i \in DOMAIN xs }

PointsUpTo(xs, ys, hi) == { <<xs[i], ys[i]>> : i \in { j \in DOMAIN xs : xs[j] <= hi } }

Last(u) == u[Len(u)]

NonDecreasing(u) == \A i \in 1..(Len(u) - 1) : u[i] <= u[i + 1]

Increasing(xs) == \A i \in 1..(Len(xs) - 1) : xs[i] < xs[i + 1]

AfterTable == pc \in {"per_year", "locations", "affordability", "market_trends", "done"}

ProjectedColumns == {"Projected for 2030", "Projected Deficit"}

---------------------------------------------------------------------------
(* C1 (as stated): the fit of a category is given one point for every      *)
(* bucket of the regularised axis whose year is at most the last observed  *)
(* completion year, gap years included with the carried-forward total.     *)
C1_FitUsesEveryBucketUpToLastObserved ==
    (pc = "deficit_table" /\ "rental_poly1d" \in locals /\ ParseableYears # {}) =>
        /\ Points(rental_years, rental_cum) =
              PointsUpTo(all_years, yearly_complete["Cumulative Rental"],
                         SetMax(ParseableYears))
        /\ Points(owner_years, owner_cum) =
              PointsUpTo(all_years, yearly_complete["Cumulative Owner"],
                         SetMax(ParseableYears))

(* C1 (amended): a fit is made exactly when the loaded records hold at     *)
(* least two distinct year values; its inputs are one point per distinct   *)
(* year value, in increasing order, whose value is the total of the        *)
(* category over the records with a year up to it.  Years without a record *)
(* contribute no point.                                                    *)
C1_FitUsesObservedYearsOnly ==
    pc = "deficit_table" =>
        /\ ("rental_poly1d" \in locals) = (Cardinality(DatedYears) >= 2)
        /\ ("owner_poly1d" \in locals) = (Cardinality(DatedYears) >= 2)
        /\ "rental_poly1d" \in locals =>
              /\ Len(rental_years) = Cardinality(DatedYears)
              /\ Len(rental_cum) = Len(rental_years)
              /\ Increasing(rental_years)
              /\ \A i \in DOMAIN rental_years :
                    /\ rental_years[i] \in DatedYears
                    /\ rental_cum[i] = UnitsUpTo("Rental Units", rental_years[i])
        /\ "owner_poly1d" \in locals =>
              /\ Len(owner_years) = Cardinality(DatedYears)
              /\ Len(owner_cum) = Len(owner_years)
              /\ Increasing(owner_years)
              /\ \A i \in DOMAIN owner_years :
                    /\ owner_years[i] \in DatedYears
                    /\ owner_cum[i] = UnitsUpTo("Owner Units", owner_years[i])

(* The example of the specification: 10 rental units in 2022, 20 in 2024;  *)
(* the fit has been given (2022, 10) and (2024, 30) and nothing for 2023.  *)
C1_Witness ==
    /\ pc = "deficit_table"
    /\ rental_years = <<2022, 2024>>
    /\ rental_cum = <<10, 30>>
    /\ Len(all_years) = 9

(* C2: for every category, the cumulative value of the last bucket equals  *)
(* the sum of the units added over all buckets of the regularised axis.    *)
C2_LastCumulativeIsSumOfAdded ==
    pc = "metrics" =>
        \A c \in AggColumns :
           Len(all_years) > 0 =>
              Last(yearly_complete[CumulativeOf[c]]) = SumSeq(yearly_complete[c])

(* Buckets exist, some of them are gap or trailing years, and units of     *)
(* both the rental and the owner category have been added.                 *)
C2_Witness ==
    /\ pc = "rental_chart"
    /\ Len(all_years) > Len(yearly_data["Move-in Year"])
    /\ current_rental > 0
    /\ current_owner > 0

(* C3 (as stated): the regularised axis is the contiguous run of years     *)
(* from the smallest completion year a record carries to TARGET_YEAR, and  *)
(* has TARGET_YEAR - min + 1 entries (stated for a smallest year that is   *)
(* not after TARGET_YEAR, where that length is a length).                  *)
C3_AxisFromFirstObservedYearToTarget ==
    (pc = "metrics" /\ ParseableYears # {} /\ SetMin(ParseableYears) <= TARGET_YEAR) =>
        LET lo == SetMin(ParseableYears)
        IN /\ Len(all_years) = TARGET_YEAR - lo + 1
           /\ \A i \in 1..Len(all_years) : all_years[i] = lo + i - 1

(* C4: for every category the cumulative column is non-decreasing along    *)
(* the ordered buckets.                                                    *)
C4_CumulativeNonDecreasing ==
    pc = "metrics" =>
        \A c \in AggColumns : NonDecreasing(yearly_complete[CumulativeOf[c]])

(* A frame with a gap year between two years that added rental units.      *)
C4_Witness ==
    /\ pc = "metrics"
    /\ Len(yearly_data["Move-in Year"]) = 2
    /\ yearly_data["Move-in Year"] = <<2022, 2024>>
    /\ yearly_data["Rental Units"][1] > 0
    /\ yearly_data["Rental Units"][2] > 0

(* C5 (as stated): a record without a parseable completion year is in no   *)
(* bucket and has no say in the first year of the axis, while the totals   *)
(* per status still count it.                                              *)
C5_UndatedRecordsGetNoYear ==
    /\ (pc = "metrics" /\ ParseableYears # {}) =>
          /\ { yearly_data["Move-in Year"][i] : i \in DOMAIN yearly_data["Move-in Year"] }
                = ParseableYears
          /\ (all_years # <<>> => all_years[1] = SetMin(ParseableYears))
    /\ pc = "market_trends" =>
          \A c \in {"Market Rate Units", "Affordable Units"} :
             SumOverRows({ i \in DOMAIN df : TRUE }, c) =
                LET S == DOMAIN affordability_by_status
                    Total[T \in SUBSET S] ==
                        IF T = {} THEN 0
                        ELSE LET st == CHOOSE x \in T : TRUE
                             IN affordability_by_status[st][c] + Total[T \ {st}]
                IN Total[S]

(* C6 (as stated): when no record carries a parseable completion year the  *)
(* aggregation fails with an error (EmptySeriesError; any error raised by  *)
(* the aggregation is accepted here) and produces no year range and no     *)
(* buckets.                                                                *)
C6_NoParseableYearFailsExplicitly ==
    (ParseableYears = {} /\ RequiredForDerive \subseteq columns
        /\ pc \notin {"load", "header", "derive", "aggregate"}) =>
        /\ pc = "aborted"
        /\ error # "none"
        /\ all_years = <<>>
        /\ Len(yearly_data["Move-in Year"]) = 0

(* C7 (as stated): with fewer than two distinct observed years there is no *)
(* trend model and the projected outputs equal the current ones.           *)
C7_NoModelFallsBackToCurrent ==
    (AfterTable /\ Cardinality(DatedYears) < 2) =>
        /\ "rental_poly1d" \notin locals
        /\ "owner_poly1d" \notin locals
        /\ ProjectedColumns \subseteq DOMAIN deficit_data
        /\ deficit_data["Projected for 2030"] = deficit_data["Current Planned"]
        /\ deficit_data["Projected Deficit"] = deficit_data["Current Deficit"]

C9_TotalRowFollowsCategoryFormulas ==
    AfterTable =>
        /\ deficit_data["2030 Goal"][3] = RENTAL_GOAL + OWNER_GOAL
        /\ deficit_data["Current Planned"][3] = current_rental + current_owner
        /\ deficit_data["Current Deficit"][3] =
              deficit_data["2030 Goal"][3] - deficit_data["Current Planned"][3]
        /\ "Projected Deficit" \in DOMAIN deficit_data =>
              deficit_data["Projected Deficit"][3] =
                 ToInt(Max0(RatSub(Rat(TOTAL_GOAL),
                                   RatAdd(rental_projected, owner_projected))))

(* C10 (as stated): when the pass aborts, nothing has been rendered.       *)
C10_AbortLeavesNoOutput ==
    pc = "aborted" => rendered = <<>>

(* C11 (as stated): a pass that starts within the TTL of a previous        *)
(* successful fetch reuses the cached table and performs no fetch.         *)
C11_PassWithinTtlDoesNotFetch ==
    (run_pc = "loaded" /\ prev_fetch # <<>> /\ pass_start - prev_fetch[1] < TTL) =>
        ~pass_fetched

AfterPerYear == pc \in {"locations", "affordability", "market_trends", "done"}

Rendered(e) == \E i \in DOMAIN rendered : rendered[i] = e

(* q is n / d truncated toward zero, for d > 0.                             *)
IsTruncatedQuotient(q, n, d) ==
    /\ Abs(q * d) <= Abs(n)
    /\ Abs(n - q * d) < d
    /\ (q # 0 => Sgn(q) = Sgn(n))

(* C12 (as stated): the per-year rates are computed by a division only     *)
(* when TARGET_YEAR is after the current year; otherwise no division is    *)
(* attempted and the rate is reported as inapplicable (an element saying   *)
(* that the goal horizon has passed is rendered).                          *)
C12_PassedHorizonIsReported ==
    AfterPerYear =>
        /\ (TARGET_YEAR > CURRENT_YEAR) = (per_year_info # <<>>)
        /\ TARGET_YEAR <= CURRENT_YEAR => Rendered("goal horizon has passed")

(* C12 (amended): the per-year rates are computed, by a division by        *)
(* TARGET_YEAR - current year, exactly when TARGET_YEAR is after the       *)
(* current year, and are then rendered; otherwise no division is attempted *)
(* and nothing is rendered about the per-year rate.                        *)
C12_PerYearOnlyBeforeHorizon ==
    AfterPerYear =>
        /\ years_remaining = TARGET_YEAR - CURRENT_YEAR
        /\ TARGET_YEAR > CURRENT_YEAR =>
              /\ Len(per_year_info) = 3
              /\ IsTruncatedQuotient(per_year_info[1], rental_deficit, years_remaining)
              /\ IsTruncatedQuotient(per_year_info[2], owner_deficit, years_remaining)
              /\ per_year_info[3] = years_remaining
              /\ Rendered("per-year info")
        /\ TARGET_YEAR <= CURRENT_YEAR =>
              /\ per_year_info = <<>>
              /\ ~Rendered("per-year info")
              /\ ~Rendered("goal horizon has passed")

(* A pass run in the year after TARGET_YEAR, with deficits left, has gone  *)
(* past the per-year step without a rate.                                  *)
C12_Witness ==
    /\ pc = "done"
    /\ CURRENT_YEAR > TARGET_YEAR
    /\ rental_deficit > 0
    /\ per_year_info = <<>>

(* The rows of the loaded table dated after TARGET_YEAR.                    *)
LateRows == { i \in DatedRows : df[i]["Move-in Year"].v > TARGET_YEAR }

Elements(u) == { u[i] : i \in DOMAIN u }

(* C13: the current total of a category is the sum of its units over       *)
(* exactly the records whose parsed completion year is at most             *)
(* TARGET_YEAR.  A record dated after TARGET_YEAR is in no bucket of the   *)
(* regularised axis and in no current total, yet its year is one of the    *)
(* observed years given to the fit and counted by the two-years test.      *)
C13_CurrentTotalsStopAtTargetYear ==
    pc = "deficit_table" =>
        /\ current_rental = UnitsUpTo("Rental Units", TARGET_YEAR)
        /\ current_owner = UnitsUpTo("Owner Units", TARGET_YEAR)
        /\ current_affordable = UnitsUpTo("Affordable Units", TARGET_YEAR)
        /\ current_market_rate = UnitsUpTo("Market Rate Units", TARGET_YEAR)
        /\ \A i \in LateRows :
              /\ df[i]["Move-in Year"].v \notin Elements(all_years)
              /\ df[i]["Move-in Year"].v \in Elements(yearly_data["Move-in Year"])
              /\ "rental_poly1d" \in locals =>
                    /\ df[i]["Move-in Year"].v \in Elements(rental_years)
                    /\ Last(rental_cum) = SumOverRows(DatedRows, "Rental Units")
              /\ "owner_poly1d" \in locals =>
                    /\ df[i]["Move-in Year"].v \in Elements(owner_years)
                    /\ Last(owner_cum) = SumOverRows(DatedRows, "Owner Units")
        /\ ("rental_poly1d" \in locals) = (Len(yearly_data["Move-in Year"]) >= 2)
        /\ ("owner_poly1d" \in locals) = (Len(yearly_data["Move-in Year"]) >= 2)

(* One record before TARGET_YEAR and one after it: the later record's      *)
(* units are in no current total, and its year is the second observed year *)
(* that lets the fit run, with its units in the fitted running total.      *)
C13_Witness ==
    /\ pc = "deficit_table"
    /\ LateRows # {}
    /\ Cardinality(DatedYears) = 2
    /\ "rental_poly1d" \in locals
    /\ current_rental > 0
    /\ current_rental < Last(rental_cum)
    /\ current_affordable = 0

(* The outcomes of the calls made for row i of batch_geocode.              *)
ReturnedLocations(i) ==
    { geocode_calls[i][k] : k \in { m \in DOMAIN geocode_calls[i] :
                                        geocode_calls[i][m].kind = "location" } }

(* Row i has been dealt with: the iterator is past it, or at it with no    *)
(* call left to make.                                                      *)
RowFinished(i) == i < Len(visited) \/ (i = Len(visited) /\ geo_pc \in {"for", "to_csv", "return"})

(* C14: in batch_geocode a row with a missing address is never geocoded;   *)
(* any other row gets one call of the geocoder, and a second one only if   *)
(* the first raised, never a third.  Latitude and Longitude of a row are   *)
(* set only by a call that returned a location and are None otherwise.     *)
(* The loop reaches every row, and the table is written exactly once,      *)
(* after the loop, also when both calls of a row raised.                   *)
C14_RetryOnceAndAlwaysSave ==
    /\ \A i \in DOMAIN geo_df :
          /\ input_csv[i] = NaN => geocode_calls[i] = <<>>
          /\ (RowFinished(i) /\ input_csv[i] # NaN) => Len(geocode_calls[i]) >= 1
          /\ Len(geocode_calls[i]) <= 2
          /\ Len(geocode_calls[i]) = 2 => geocode_calls[i][1].kind = "raise"
          /\ (RowFinished(i) /\ Len(geocode_calls[i]) = 1) =>
                geocode_calls[i][1].kind # "raise"
          /\ IF ReturnedLocations(i) = {}
             THEN geo_df[i]["Latitude"] = None /\ geo_df[i]["Longitude"] = None
             ELSE \E location \in ReturnedLocations(i) :
                     /\ geo_df[i]["Latitude"] = Num(location.latitude)
                     /\ geo_df[i]["Longitude"] = Num(location.longitude)
          /\ geo_df[i]["Property address"] = input_csv[i]
    /\ geo_pc \in {"to_csv", "return"} =>
          visited = [i \in 1..Len(input_csv) |-> i - 1]
    /\ to_csv_calls = (IF geo_pc = "return" THEN 1 ELSE 0)
    /\ output_csv = (IF geo_pc = "return" THEN <<geo_df>> ELSE <<>>)

(* A finished run over a row without an address and a row both of whose    *)
(* calls raised: the table is written, with no coordinates.                *)
C14_Witness ==
    /\ geo_pc = "return"
    /\ to_csv_calls = 1
    /\ \E i \in DOMAIN geo_df : input_csv[i] = NaN
    /\ \E i \in DOMAIN geo_df :
          /\ Len(geocode_calls[i]) = 2
          /\ geocode_calls[i][2].kind = "raise"
          /\ geo_df[i]["Latitude"] = None

TypeOK ==
    pc \in {"load", "header", "derive", "aggregate", "metrics", "rental_chart",
            "owner_chart", "deficit_table", "per_year", "locations", "affordability",
            "market_trends", "done", "aborted"}
=============================================================================
